---- MODULE Spec2Model ----
(***************************************************************************)
(* Authentication and authorization core of the point-of-sale back-office  *)
(* API: credential store (users collection), token codec, revocation       *)
(* registry, login / refresh / logout and the access guard.                *)
(*                                                                         *)
(* Time is counted in minutes.  A token string is modelled by the record   *)
(* of what its three JWT segments carry: the payload (sub, exp, type) and  *)
(* the key its signature was made with; wf = FALSE is a string that is     *)
(* not a JWT at all.                                                       *)
(***************************************************************************)
EXTENDS Integers, Sequences, FiniteSets, TLC

\* ---------------------------------------------------------------- bounds
MaxUsers  == 2      \* documents the users collection may hold
MaxReqs   == 2      \* login requests that may be in flight together
MaxTicks  == 1      \* clock advances in one behaviour
MaxRevoked == 2     \* entries the revocation registry may hold
MaxIssued == 4      \* distinct token strings handed out in one behaviour

\* ------------------------------------------------------- program constants
ACCESS_TOKEN_EXPIRE_MINUTES == 30
REFRESH_TOKEN_EXPIRE_DAYS == 7
UTILS_ACCESS_TOKEN_EXPIRE_MINUTES == 15
UTILS_REFRESH_TOKEN_EXPIRE_DAYS == 7
MinutesPerDay == 24 * 60
LockThreshold == 4
HTTP_200_OK == 200
HTTP_401_UNAUTHORIZED == 401
HTTP_423_LOCKED == 423
HTTP_400_BAD_REQUEST == 400
HTTP_500_INTERNAL_SERVER_ERROR == 500
HTTP_201_CREATED == 201

SettingsDefaultKey == "your-secret-key-here"
UtilsSecretKey == "tu_secreto_super_seguro"
AttackerKey == "some-other-key"

\* -------------------------------------------------------------- input sets
Emails    == {"a@x", "b@x"}
Usernames == {"ann", "bob"}
Passwords == {"pw1", "pw2"}
RegisterPasswords == {"pw1"}
Reqs      == 1..MaxReqs
\* environment of the process: the SECRET_KEY variable and the offset of the
\* host's local time from UTC, in minutes
ConfigKeys == {SettingsDefaultKey, UtilsSecretKey}
TzOffsets  == {-360, 0}
\* clock advances: past the access TTL, past the refresh TTL
TickSteps == {ACCESS_TOKEN_EXPIRE_MINUTES + 1,
              REFRESH_TOKEN_EXPIRE_DAYS * MinutesPerDay + 1}

NoUser  == 0
Never   == -1
NoToken == [wf |-> FALSE, sub |-> 0, exp |-> 0, type |-> "none", key |-> "none"]
Malformed == [wf |-> FALSE, sub |-> 0, exp |-> 0, type |-> "garbage", key |-> "none"]

VARIABLES
    users,           \* the users collection: sequence of documents, _id = index
    revoked_tokens,  \* token_blacklist.revoked_tokens
    now,             \* UTC clock, minutes
    ticks,           \* clock advances so far
    secret_key,      \* settings.SECRET_KEY
    tz_offset,       \* local time minus UTC on the host
    issued,          \* token strings the API has returned to clients
    req,             \* login requests in flight
    streak,          \* per identity: failed password verifications since
                     \* the password verification of its last login that
                     \* answered 200
    refreshed,       \* refresh tokens that have been exchanged: once, and
                     \* more than once
    resp,            \* the response to the latest completed request
    customers,       \* the customers collection: sequence of documents
    sales,           \* the sales collection: sequence of documents
    ret,             \* outcome of the latest customer, sale, repository or
                     \* authorization call
    suppliers        \* the suppliers collection: sequence of documents

\* the collections and the call outcome that the authentication handlers
\* never touch
store == <<customers, sales, ret, suppliers>>

vars == <<users, revoked_tokens, now, ticks, secret_key, tz_offset, issued,
          req, streak, refreshed, resp, store>>

\* ------------------------------------------------------------ Token Codec
None == [ok |-> FALSE, sub |-> 0, exp |-> 0, type |-> "none"]

\* jwt.encode(payload, key): the string is determined by payload and key
jwt_encode(sub, exp, type, key) ==
    [wf |-> TRUE, sub |-> sub, exp |-> exp, type |-> type, key |-> key]

\* jwt.decode(token, key): structure, signature, then exp (expired when
\* exp < now); every failure is one JWTError
jwt_decode(token, key) ==
    IF token.wf /\ token.key = key /\ ~(token.exp < now)
    THEN [ok |-> TRUE, sub |-> token.sub, exp |-> token.exp, type |-> token.type]
    ELSE None

create_access_token_other_ttl(subject, expires_delta) ==
    jwt_encode(subject, now + UTILS_ACCESS_TOKEN_EXPIRE_MINUTES, "access",
               secret_key)

\* core/security.py; expires_delta = 0 stands for None (and for the falsy
\* zero timedelta): "expires_delta or timedelta(minutes=...)"
create_access_token(subject, expires_delta) ==
    jwt_encode(subject,
               now + (IF expires_delta # 0 THEN expires_delta
                      ELSE ACCESS_TOKEN_EXPIRE_MINUTES),
               "access", secret_key)

create_refresh_token(subject) ==
    jwt_encode(subject, now + REFRESH_TOKEN_EXPIRE_DAYS * MinutesPerDay,
               "refresh", secret_key)

verify_token(token) == jwt_decode(token, secret_key)

\* utils/token_utils.py: datetime.now() is the host's local wall clock, and
\* the naive datetime is written into exp as if it were UTC
utils_create_access_token(user_id) ==
    jwt_encode(user_id,
               (now + tz_offset) + UTILS_ACCESS_TOKEN_EXPIRE_MINUTES,
               "access", UtilsSecretKey)

utils_create_refresh_token(user_id) ==
    jwt_encode(user_id,
               (now + tz_offset) + UTILS_REFRESH_TOKEN_EXPIRE_DAYS * MinutesPerDay,
               "refresh", UtilsSecretKey)

\* ----------------------------------------------------- Revocation Registry
add_token_to_blacklist_replacing(registry, token) == {token}

add_token_to_blacklist(registry, token) == registry \cup {token}

is_token_revoked(token) == token \in revoked_tokens

\* ------------------------------------------------------- password hashing
get_password_hash(password) == <<"bcrypt", password>>

verify_password(plain_password, hashed_password) ==
    hashed_password = get_password_hash(plain_password)

\* ------------------------------------------------------- users collection
Ids == 1..Len(users)

\* find_one({"email": email, "is_active": True})
get_by_email(email) ==
    IF \E u \in Ids : users[u].email = email /\ users[u].is_active
    THEN CHOOSE u \in Ids : users[u].email = email /\ users[u].is_active
    ELSE NoUser

\* find_one({"_id": ObjectId(document_id)})
get_by_id(document_id) ==
    IF document_id \in Ids THEN document_id ELSE NoUser

email_exists(email) ==
    \E u \in Ids : users[u].email = email /\ users[u].is_active

username_exists(username) ==
    \E u \in Ids : users[u].username = username /\ users[u].is_active

DuplicateKey_without_indexes(email, username) == FALSE

\* the unique indexes on email and on username reject the insert
DuplicateKey(email, username) ==
    \E u \in Ids : users[u].email = email \/ users[u].username = username

\* BaseRepository.create on the document UserService.create prepares
NewUser(email, username, password) ==
    [email |-> email, username |-> username,
     hashed_password |-> get_password_hash(password),
     role |-> "user", permissions |-> {"read"},
     is_active |-> TRUE, failed_login_attempts |-> 0, is_locked |-> FALSE,
     last_login |-> Never]

\* update_one({"_id": id}, {"$inc": {"failed_login_attempts": 1}})
increment_failed_attempts(coll, user_id) ==
    [coll EXCEPT ![user_id].failed_login_attempts = @ + 1]

reset_failed_attempts_skipped(coll, user_id) == coll

\* update(id, {"failed_login_attempts": 0})
reset_failed_attempts(coll, user_id) ==
    [coll EXCEPT ![user_id].failed_login_attempts = 0]

\* update(id, {"is_locked": True})
lock_user(coll, user_id) ==
    [coll EXCEPT ![user_id].is_locked = TRUE]

\* update(id, {"last_login": datetime.utcnow()})
update_last_login(coll, user_id) ==
    [coll EXCEPT ![user_id].last_login = now]

\* an activation that also runs unlock_user
set_active_unlocking(coll, document_id, flag) ==
    [coll EXCEPT ![document_id].is_active = flag,
                 ![document_id].is_locked = FALSE,
                 ![document_id].failed_login_attempts = 0]

\* update_one({"_id": id}, {"$set": {"is_active": flag, ...}})
set_active(coll, document_id, flag) ==
    [coll EXCEPT ![document_id].is_active = flag]

\* ------------------------------------------------------------- responses
\* since: failed password verifications on the same identity after this
\* request's own password verification succeeded
Idle == [pc |-> "idle", email |-> "", password |-> "", user |-> NoUser,
         failed |-> 0, since |-> 0]

AllIdle == \A r \in Reqs : req[r].pc = "idle"

\* status and body of a response, with the request's inputs (email and
\* password of a login, the token of the others)
Response(op, status) ==
    [op |-> op, status |-> status, email |-> "", password |-> "",
     user |-> NoUser, token |-> NoToken, access |-> NoToken,
     refresh |-> NoToken, expires_in |-> 0]

\* what a client can put in a request: a token it was given, a string that
\* is no JWT, or a JWT it signed itself
FarFuture == (MaxTicks + 2) * (REFRESH_TOKEN_EXPIRE_DAYS * MinutesPerDay + 1)
Forged == {Malformed, jwt_encode(1, FarFuture, "refresh", AttackerKey)}
Presentable == issued \cup Forged

\* room left in the token bound, counting the pairs that logins in flight
\* are about to be given
Reserved == 2 * Cardinality({r \in Reqs : req[r].pc \in {"reset", "last_login"}})
HasRoom(new) == Cardinality(issued \cup new) + Reserved <= MaxIssued

\* ------------------------------------------------------------------ Init
NoReturn == [op |-> "none"]

\* empty customers and sales collections, no call made yet
InitStore ==
    /\ customers = << >>
    /\ sales = << >>
    /\ suppliers = << >>
    /\ ret = NoReturn

Init ==
    /\ users = << >>
    /\ revoked_tokens = {}
    /\ now = 0
    /\ ticks = 0
    /\ secret_key \in ConfigKeys
    /\ tz_offset \in TzOffsets
    /\ issued = {}
    /\ req = [r \in Reqs |-> Idle]
    /\ streak = [u \in 1..MaxUsers |-> 0]
    /\ refreshed = [once |-> {}, more |-> {}]
    /\ resp = Response("none", 0)
    /\ InitStore

\* the configuration defaults, on a host whose clock is UTC
DefaultConfig == secret_key = SettingsDefaultKey /\ tz_offset = 0

InitDefault == Init /\ DefaultConfig

\* two accounts registered one after the other, nothing else done yet
Registered ==
    << NewUser("a@x", "ann", "pw1"), NewUser("b@x", "bob", "pw1") >>

InitRegistered ==
    /\ users = Registered
    /\ revoked_tokens = {}
    /\ now = 0
    /\ ticks = 0
    /\ secret_key \in ConfigKeys
    /\ tz_offset \in TzOffsets
    /\ issued = {}
    /\ req = [r \in Reqs |-> Idle]
    /\ streak = [u \in 1..MaxUsers |-> 0]
    /\ refreshed = [once |-> {}, more |-> {}]
    /\ resp = Response("none", 0)
    /\ InitStore

\* one registered account, configuration defaults
InitOneRegistered ==
    /\ users = << NewUser("a@x", "ann", "pw1") >>
    /\ revoked_tokens = {}
    /\ now = 0
    /\ ticks = 0
    /\ DefaultConfig
    /\ issued = {}
    /\ req = [r \in Reqs |-> Idle]
    /\ streak = [u \in 1..MaxUsers |-> 0]
    /\ refreshed = [once |-> {}, more |-> {}]
    /\ resp = Response("none", 0)
    /\ InitStore

\* --------------------------------------------------------------- actions
Tick(d) ==
    /\ ticks < MaxTicks
    /\ now' = now + d
    /\ ticks' = ticks + 1
    /\ UNCHANGED <<store, users, revoked_tokens, secret_key, tz_offset, issued,
                   req, streak, refreshed, resp>>

\* UserService.create behind POST /auth/register
register(email, username, password) ==
    /\ Len(users) < MaxUsers
    /\ IF email_exists(email) \/ username_exists(username)
       THEN /\ resp' = Response("register", HTTP_400_BAD_REQUEST)
            /\ UNCHANGED users
       ELSE IF DuplicateKey(email, username)
       THEN /\ resp' = Response("register", HTTP_500_INTERNAL_SERVER_ERROR)
            /\ UNCHANGED users
       ELSE /\ users' = Append(users, NewUser(email, username, password))
            /\ resp' = [Response("register", HTTP_201_CREATED)
                          EXCEPT !.user = Len(users) + 1]
    /\ UNCHANGED <<store, revoked_tokens, now, ticks, secret_key, tz_offset, issued,
                   req, streak, refreshed>>

\* UserService.deactivate / BaseRepository.deactivate
deactivate(user_id) ==
    /\ user_id \in Ids
    /\ users' = set_active(users, user_id, FALSE)
    /\ resp' = [Response("deactivate", HTTP_200_OK) EXCEPT !.user = user_id]
    /\ UNCHANGED <<store, revoked_tokens, now, ticks, secret_key, tz_offset, issued,
                   req, streak, refreshed>>

\* UserService.activate / BaseRepository.activate
activate(user_id) ==
    /\ user_id \in Ids
    /\ users' = set_active(users, user_id, TRUE)
    /\ resp' = [Response("activate", HTTP_200_OK) EXCEPT !.user = user_id]
    /\ UNCHANGED <<store, revoked_tokens, now, ticks, secret_key, tz_offset, issued,
                   req, streak, refreshed>>

should_lock_one_later(failed) == failed > LockThreshold

\* "if user.get('failed_login_attempts', 0) >= 4"
should_lock(failed) == failed >= LockThreshold

is_locked_ignored(user) == FALSE

\* "if user.get('is_locked', False)"
is_locked(user) == user.is_locked

\* UserService.authenticate up to its first write: get_by_email, the
\* locked check and verify_password
authenticate_get_by_email(r, email, password) ==
    /\ req[r].pc = "idle"
    /\ LET u == get_by_email(email)
           base == [Response("login", 0) EXCEPT
                      !.email = email, !.password = password, !.user = u]
           started == [pc |-> "idle", email |-> email, password |-> password,
                       user |-> u,
                       failed |-> users[u].failed_login_attempts,
                       since |-> 0]
           \* the logins on u that have verified their password and are
           \* still in flight see one more failure
           noted == [q \in Reqs |->
                       IF req[q].user = u /\ req[q].pc \in {"reset", "last_login"}
                       THEN [req[q] EXCEPT !.since = @ + 1]
                       ELSE req[q]]
       IN  IF u = NoUser
           THEN /\ resp' = [base EXCEPT !.status = HTTP_401_UNAUTHORIZED]
                /\ UNCHANGED <<req, streak>>
           ELSE IF is_locked(users[u])
           THEN /\ resp' = [base EXCEPT !.status = HTTP_423_LOCKED]
                /\ UNCHANGED <<req, streak>>
           ELSE IF ~verify_password(password, users[u].hashed_password)
           THEN /\ req' = [noted EXCEPT ![r] = [started EXCEPT !.pc = "increment"]]
                /\ streak' = [streak EXCEPT ![u] = @ + 1]
                /\ UNCHANGED resp
           ELSE /\ Cardinality(issued) + Reserved + 2 <= MaxIssued
                /\ req' = [req EXCEPT ![r] = [started EXCEPT !.pc = "reset"]]
                /\ UNCHANGED <<resp, streak>>
    /\ UNCHANGED <<store, users, revoked_tokens, now, ticks, secret_key, tz_offset,
                   issued, refreshed>>

\* the response of a login request, from what it read at its start
LoginResponse(r, status) ==
    [Response("login", status) EXCEPT
       !.email = req[r].email, !.password = req[r].password,
       !.user = req[r].user]

\* wrong password: "await self.repository.increment_failed_attempts", and
\* the 401 when the record read at the start is below the threshold
authenticate_increment_failed_attempts(r) ==
    /\ req[r].pc = "increment"
    /\ users' = increment_failed_attempts(users, req[r].user)
    /\ IF should_lock(req[r].failed)
       THEN /\ req' = [req EXCEPT ![r].pc = "lock"]
            /\ UNCHANGED resp
       ELSE /\ req' = [req EXCEPT ![r] = Idle]
            /\ resp' = LoginResponse(r, HTTP_401_UNAUTHORIZED)
    /\ UNCHANGED <<store, revoked_tokens, now, ticks, secret_key, tz_offset, issued,
                   streak, refreshed>>

\* wrong password at the threshold: "await self.repository.lock_user", 401
authenticate_lock_user(r) ==
    /\ req[r].pc = "lock"
    /\ users' = lock_user(users, req[r].user)
    /\ req' = [req EXCEPT ![r] = Idle]
    /\ resp' = LoginResponse(r, HTTP_401_UNAUTHORIZED)
    /\ UNCHANGED <<store, revoked_tokens, now, ticks, secret_key, tz_offset, issued,
                   streak, refreshed>>

\* right password: "await self.repository.reset_failed_attempts"
authenticate_reset_failed_attempts(r) ==
    /\ req[r].pc = "reset"
    /\ users' = reset_failed_attempts(users, req[r].user)
    /\ req' = [req EXCEPT ![r].pc = "last_login"]
    /\ UNCHANGED <<store, revoked_tokens, now, ticks, secret_key, tz_offset, issued,
                   streak, refreshed, resp>>

\* right password: "await self.repository.update_last_login", then the
\* token pair and the 200
authenticate_update_last_login(r) ==
    /\ req[r].pc = "last_login"
    /\ users' = update_last_login(users, req[r].user)
    /\ LET access_token == create_access_token(req[r].user,
                                               ACCESS_TOKEN_EXPIRE_MINUTES)
           refresh_token == create_refresh_token(req[r].user)
       IN  /\ issued' = issued \cup {access_token, refresh_token}
           /\ resp' = [LoginResponse(r, HTTP_200_OK) EXCEPT
                         !.access = access_token,
                         !.refresh = refresh_token,
                         !.expires_in = ACCESS_TOKEN_EXPIRE_MINUTES * 60]
    /\ req' = [req EXCEPT ![r] = Idle]
    /\ streak' = [streak EXCEPT ![req[r].user] = req[r].since]
    /\ UNCHANGED <<store, revoked_tokens, now, ticks, secret_key, tz_offset,
                   refreshed>>

is_refresh_payload_any_kind(payload) == payload.ok

\* "if not payload or payload.get('type') != 'refresh'" negated
is_refresh_payload(payload) == payload.ok /\ payload.type = "refresh"

\* POST /auth/refresh: everything the handler does
refresh_token(refreshtoken) ==
    /\ LET payload == verify_token(refreshtoken)
           base == [Response("refresh", 0) EXCEPT !.token = refreshtoken]
       IN  IF ~is_refresh_payload(payload)
           THEN /\ resp' = [base EXCEPT !.status = HTTP_401_UNAUTHORIZED]
                /\ UNCHANGED <<issued, refreshed>>
           ELSE LET user_id == payload.sub
                    new_access_token == utils_create_access_token(user_id)
                    refresh_token == utils_create_refresh_token(user_id)
                IN  /\ HasRoom({new_access_token, refresh_token})
                    /\ issued' = issued \cup {new_access_token, refresh_token}
                    /\ refreshed' =
                         IF refreshtoken \in refreshed.once
                         THEN [refreshed EXCEPT !.more = @ \cup {refreshtoken}]
                         ELSE [refreshed EXCEPT !.once = @ \cup {refreshtoken}]
                    /\ resp' = [base EXCEPT
                                  !.status = HTTP_200_OK,
                                  !.user = user_id,
                                  !.access = new_access_token,
                                  !.refresh = refresh_token,
                                  !.expires_in = ACCESS_TOKEN_EXPIRE_MINUTES * 60]
    /\ UNCHANGED <<store, users, now, ticks, secret_key, tz_offset, req, streak>>

refresh_revoking_exchanged(refreshtoken) ==
    /\ refresh_token(refreshtoken)
    /\ revoked_tokens' =
         IF is_refresh_payload(verify_token(refreshtoken))
         THEN add_token_to_blacklist(revoked_tokens, refreshtoken)
         ELSE revoked_tokens

\* POST /auth/refresh; the handler never touches the revocation registry
refresh(refreshtoken) ==
    /\ refresh_token(refreshtoken)
    /\ UNCHANGED revoked_tokens

\* POST /auth/logout
logout(token) ==
    /\ Cardinality(revoked_tokens \cup {token}) <= MaxRevoked
    /\ revoked_tokens' = add_token_to_blacklist(revoked_tokens, token)
    /\ resp' = [Response("logout", HTTP_200_OK) EXCEPT !.token = token]
    /\ UNCHANGED <<store, users, now, ticks, secret_key, tz_offset, issued, req,
                   streak, refreshed>>

get_current_user_ignoring_is_active(token) ==
    /\ LET payload == verify_token(token)
           user == IF payload.ok THEN get_by_id(payload.sub) ELSE NoUser
           base == [Response("guard", 0) EXCEPT !.token = token]
       IN  IF ~payload.ok \/ payload.sub = NoUser \/ user = NoUser
           THEN resp' = [base EXCEPT !.status = HTTP_401_UNAUTHORIZED]
           ELSE resp' = [base EXCEPT !.status = HTTP_200_OK, !.user = user]
    /\ UNCHANGED <<store, users, revoked_tokens, now, ticks, secret_key,
                   tz_offset, issued, req, streak, refreshed>>

\* api/deps.py get_current_user, the dependency of every protected route
get_current_user(token) ==
    /\ LET payload == verify_token(token)
           user == IF payload.ok THEN get_by_id(payload.sub) ELSE NoUser
           base == [Response("guard", 0) EXCEPT !.token = token]
       IN  IF ~payload.ok
           THEN resp' = [base EXCEPT !.status = HTTP_401_UNAUTHORIZED]
           ELSE IF payload.sub = NoUser
           THEN resp' = [base EXCEPT !.status = HTTP_401_UNAUTHORIZED]
           ELSE IF user = NoUser
           THEN resp' = [base EXCEPT !.status = HTTP_401_UNAUTHORIZED]
           ELSE IF ~users[user].is_active
           THEN resp' = [base EXCEPT !.status = HTTP_401_UNAUTHORIZED]
           ELSE resp' = [base EXCEPT !.status = HTTP_200_OK, !.user = user]
    /\ UNCHANGED <<store, users, revoked_tokens, now, ticks, secret_key, tz_offset,
                   issued, req, streak, refreshed>>

\* ------------------------------------------------------- specifications
Clock == \E d \in TickSteps : Tick(d)

Accounts ==
    \/ \E e \in Emails, n \in Usernames, p \in RegisterPasswords :
          register(e, n, p)
    \/ \E u \in 1..MaxUsers : deactivate(u)
    \/ \E u \in 1..MaxUsers : activate(u)

Tokens ==
    \/ \E t \in Presentable : refresh(t)
    \/ \E t \in Presentable : logout(t)
    \/ \E t \in Presentable : get_current_user(t)

LoginStart(P) ==
    \E r \in Reqs, e \in Emails, p \in P : authenticate_get_by_email(r, e, p)

LoginFail ==
    \/ \E r \in Reqs : authenticate_increment_failed_attempts(r)
    \/ \E r \in Reqs : authenticate_lock_user(r)

LoginSucceed ==
    \/ \E r \in Reqs : authenticate_reset_failed_attempts(r)
    \/ \E r \in Reqs : authenticate_update_last_login(r)

\* the authentication and account routes; the handlers of concurrent
\* requests interleave at every await
Next ==
    \/ Clock
    \/ Accounts
    \/ Tokens
    \/ LoginStart(Passwords)
    \/ LoginFail
    \/ LoginSucceed

Spec == Init /\ [][Next]_vars

\* login requests on one registered account, interleaved at every await
NextLogin ==
    \/ LoginStart(Passwords)
    \/ LoginFail
    \/ LoginSucceed

LoginSpec == InitOneRegistered /\ [][NextLogin]_vars

\* account and login requests only, served one after another
NextSeqLogin ==
    \/ AllIdle /\ Accounts
    \/ AllIdle /\ LoginStart(Passwords)
    \/ LoginFail
    \/ LoginSucceed

SeqLoginSpec == InitDefault /\ [][NextSeqLogin]_vars

\* issuing, exchanging and presenting tokens on two registered accounts:
\* requests served one after another, every login with the password the
\* account was registered with
NextToken ==
    \/ Clock
    \/ AllIdle /\ \E u \in 1..MaxUsers : deactivate(u)
    \/ AllIdle /\ \E u \in 1..MaxUsers : activate(u)
    \/ AllIdle /\ \E t \in Presentable : refresh(t)
    \/ AllIdle /\ \E t \in Presentable : get_current_user(t)
    \/ AllIdle /\ LoginStart(RegisterPasswords)
    \/ LoginSucceed

TokenSpec == InitRegistered /\ [][NextToken]_vars

\* revoking and presenting tokens on two registered accounts, requests
\* served one after another
NextLogout ==
    \/ Clock
    \/ AllIdle /\ \E t \in Presentable : logout(t)
    \/ AllIdle /\ \E t \in Presentable : get_current_user(t)
    \/ AllIdle /\ LoginStart(RegisterPasswords)
    \/ LoginSucceed

LogoutSpec == InitRegistered /\ [][NextLogout]_vars

\* ------------------------------------------------------------ properties
\* the step is the response to a request of kind op
Served(op) == resp' # resp /\ resp'.op = op

FailedLoginCompletes(r) ==
    req[r].pc \in {"increment", "lock"} /\ req'[r].pc = "idle"

SuccessfulLoginCompletes(r) ==
    req[r].pc = "last_login" /\ req'[r].pc = "idle"

\* valid signature and not expired, as the claims word it
Decodes(t) == t.wf /\ t.key = secret_key /\ t.exp >= now

\* C1: once logout(token) has put a token string into the registry, every
\* later request presenting it to the access guard gets 401, however valid
\* the token and however active its subject.
C1_RevokedTokenRejected ==
    [][(Served("guard") /\ resp'.token \in revoked_tokens)
          => resp'.status = HTTP_401_UNAUTHORIZED]_vars

\* C2: with requests served one after another, every login whose password
\* verification fails answers 401, the fifth such failure in a row included;
\* the account is locked after a failure exactly when it was the fifth in a
\* row; and from then on every login on the (active) account answers 423,
\* right password or wrong.
C2_FiveFailuresLock ==
    [][ /\ \A r \in Reqs : FailedLoginCompletes(r) =>
              /\ resp'.status = HTTP_401_UNAUTHORIZED
              /\ users'[req[r].user].is_locked
                    <=> streak[req[r].user] >= LockThreshold + 1
        /\ \A u \in Ids :
              (/\ Served("login")
               /\ resp'.email = users[u].email
               /\ users[u].is_active
               /\ users[u].is_locked
               /\ streak[u] >= LockThreshold + 1)
              => resp'.status = HTTP_423_LOCKED
      ]_vars

C2_Witness ==
    \E u \in Ids :
        /\ AllIdle
        /\ streak[u] = LockThreshold + 1
        /\ users[u].is_locked
        /\ resp.op = "login"
        /\ resp.email = users[u].email
        /\ verify_password(resp.password, users[u].hashed_password)
        /\ resp.status = HTTP_423_LOCKED

\* C3: in every reachable state, interleaved logins included, a locked
\* identity has had at least five failed password verifications since its
\* last successful one.
C3_LockedOnlyAfterFive ==
    \A u \in Ids : users[u].is_locked => streak[u] >= LockThreshold + 1

\* C4: with requests served one after another, a login that answers 200
\* leaves the identity's failed-attempt counter at 0, and between requests
\* the counter is the number of failures since the last success (so five
\* more are needed to lock).
C4_SuccessResetsCounter ==
    [][ /\ \A r \in Reqs : SuccessfulLoginCompletes(r) =>
              /\ resp'.status = HTTP_200_OK
              /\ users'[req[r].user].failed_login_attempts = 0
        /\ AllIdle' =>
              \A u \in DOMAIN users' :
                  users'[u].failed_login_attempts = streak'[u]
      ]_vars

C4_Witness ==
    \E r \in Reqs :
        /\ req[r].pc = "last_login"
        /\ req[r].failed = LockThreshold
        /\ users[req[r].user].failed_login_attempts = 0
        /\ ~users[req[r].user].is_locked

\* C5 as claimed: a login on an identity whose is_locked is true answers
\* 423, right password or wrong, issues no token and leaves the users
\* collection as it was.
C5_LockedLoginRejected ==
    [][ \A u \in Ids :
          (/\ Served("login")
           /\ resp'.email = users[u].email
           /\ users[u].is_locked)
          => /\ resp'.status = HTTP_423_LOCKED
             /\ resp'.access = NoToken /\ resp'.refresh = NoToken
             /\ issued' = issued
             /\ users' = users
      ]_vars

\* C5 amended: the same for an identity that is locked and active (the
\* lookup by email only sees active identities).
C5_ActiveLockedLoginRejected ==
    [][ \A u \in Ids :
          (/\ Served("login")
           /\ resp'.email = users[u].email
           /\ users[u].is_active
           /\ users[u].is_locked)
          => /\ resp'.status = HTTP_423_LOCKED
             /\ resp'.access = NoToken /\ resp'.refresh = NoToken
             /\ issued' = issued
             /\ users' = users
      ]_vars

C5_Witness ==
    \E u \in Ids :
        /\ AllIdle
        /\ users[u].is_active /\ users[u].is_locked
        /\ users[u].last_login # Never
        /\ resp.op = "login"
        /\ resp.email = users[u].email
        /\ verify_password(resp.password, users[u].hashed_password)
        /\ resp.status = HTTP_423_LOCKED
        /\ resp.access = NoToken

\* C6: a login that answers 200 for identity u returns an access token that
\* decodes to subject u, kind access, expiry = now + access TTL, a refresh
\* token that decodes to subject u, kind refresh, expiry = now + refresh TTL,
\* and expires_in = the access TTL in seconds.
C6_LoginTokenPair ==
    [][ (Served("login") /\ resp'.status = HTTP_200_OK) =>
          LET a == verify_token(resp'.access)
              f == verify_token(resp'.refresh)
          IN  /\ resp'.user \in Ids
              /\ users[resp'.user].email = resp'.email
              /\ a.ok /\ a.sub = resp'.user /\ a.type = "access"
              /\ a.exp = now + ACCESS_TOKEN_EXPIRE_MINUTES
              /\ f.ok /\ f.sub = resp'.user /\ f.type = "refresh"
              /\ f.exp = now + REFRESH_TOKEN_EXPIRE_DAYS * MinutesPerDay
              /\ resp'.expires_in = (a.exp - now) * 60
      ]_vars

C6_Witness ==
    /\ resp.op = "login" /\ resp.status = HTTP_200_OK
    /\ resp.user = 2
    /\ now > 0
    /\ resp.access.exp = now + ACCESS_TOKEN_EXPIRE_MINUTES
    /\ resp.access \in issued /\ resp.refresh \in issued

\* C7: refresh(t) answers 200 exactly when t has a valid signature, is not
\* expired and is of kind refresh; otherwise it answers 401 and issues
\* nothing; on 200 both new tokens carry t's subject.
C7_RefreshIffValidRefreshToken ==
    [][ Served("refresh") =>
          LET t == resp'.token
          IN  /\ resp'.status \in {HTTP_200_OK, HTTP_401_UNAUTHORIZED}
              /\ resp'.status = HTTP_200_OK <=> (Decodes(t) /\ t.type = "refresh")
              /\ resp'.status = HTTP_401_UNAUTHORIZED =>
                    /\ issued' = issued
                    /\ resp'.access = NoToken /\ resp'.refresh = NoToken
              /\ resp'.status = HTTP_200_OK =>
                    /\ resp'.access.sub = t.sub /\ resp'.access.type = "access"
                    /\ resp'.refresh.sub = t.sub /\ resp'.refresh.type = "refresh"
                    /\ {resp'.access, resp'.refresh} \subseteq issued'
      ]_vars

C7_Witness ==
    /\ resp.op = "refresh" /\ resp.status = HTTP_401_UNAUTHORIZED
    /\ Decodes(resp.token) /\ resp.token.type = "access"
    /\ resp.token \in issued
    /\ \E t \in issued : t.type = "refresh" /\ ~Decodes(t) /\ t.exp < now

\* C8: every token the API hands out is signed with the key decode verifies
\* against: an unexpired, unrevoked access token it issued, for an active
\* identity, passes the access guard, and an unexpired refresh token it
\* issued passes refresh.
C8_OneSigningKey ==
    [][ /\ \A t \in issued' : t.key = secret_key
        /\ (/\ Served("guard")
            /\ resp'.token \in issued
            /\ resp'.token.type = "access"
            /\ resp'.token.exp >= now
            /\ resp'.token \notin revoked_tokens
            /\ resp'.token.sub \in Ids
            /\ users[resp'.token.sub].is_active)
           => resp'.status = HTTP_200_OK
        /\ (/\ Served("refresh")
            /\ resp'.token \in issued
            /\ resp'.token.type = "refresh"
            /\ resp'.token.exp >= now)
           => resp'.status = HTTP_200_OK
      ]_vars

\* C9: refresh never writes the revocation registry, and a refresh token
\* that has been exchanged before is exchanged again as long as it has not
\* expired.
C9_RefreshKeepsOldToken ==
    [][ (Served("refresh") \/ refreshed' # refreshed) =>
          /\ revoked_tokens' = revoked_tokens
          /\ (resp'.token \in refreshed.once /\ resp'.token.exp >= now)
                => resp'.status = HTTP_200_OK
      ]_vars

C9_Witness ==
    /\ resp.op = "refresh" /\ resp.status = HTTP_200_OK
    /\ resp.token \in refreshed.more
    /\ resp.token \notin revoked_tokens

\* C10: logout answers 200 for every string and changes nothing but the
\* registry, which becomes the old registry plus that string (so nothing
\* changes when the string was already there); no step removes an entry.
C10_LogoutRevokesAnyString ==
    [][ /\ revoked_tokens \subseteq revoked_tokens'
        /\ (Served("logout") \/ revoked_tokens' # revoked_tokens) =>
              /\ resp'.op = "logout"
              /\ resp'.status = HTTP_200_OK
              /\ revoked_tokens' = revoked_tokens \cup {resp'.token}
              /\ users' = users /\ issued' = issued
      ]_vars

C10_Witness ==
    /\ resp.op = "logout" /\ resp.status = HTTP_200_OK
    /\ resp.token = Malformed
    /\ Malformed \in revoked_tokens
    /\ \E t \in revoked_tokens : t.type = "access" /\ t.exp < now

\* ------------------------------------------------- access guard (C11)
\* tokens that carry the server's signature but whose subject is in no
\* stored document (the database was replaced, or the key is the published
\* default), or that carry no subject at all
Orphaned ==
    {jwt_encode(MaxUsers + 1, FarFuture, "access", secret_key),
     jwt_encode(NoUser, FarFuture, "access", secret_key)}

\* presenting tokens while accounts are deactivated and activated, requests
\* served one after another
NextGuard ==
    \/ Clock
    \/ AllIdle /\ \E u \in 1..MaxUsers : deactivate(u)
    \/ AllIdle /\ \E u \in 1..MaxUsers : activate(u)
    \/ AllIdle /\ \E t \in Presentable \cup Orphaned : get_current_user(t)
    \/ AllIdle /\ LoginStart(RegisterPasswords)
    \/ LoginSucceed

GuardSpec == InitRegistered /\ [][NextGuard]_vars

\* C11: the access guard answers 401 to every token whose subject is in no
\* stored document or in a document with is_active = false, however valid
\* the token; a valid token of a stored, active identity passes, so the
\* rejection lasts from deactivate(u) until activate(u).
C11_InactiveOrUnknownSubjectRejected ==
    [][ Served("guard") =>
          LET t == resp'.token
          IN  /\ (t.sub \notin Ids \/ ~users[t.sub].is_active)
                    => resp'.status = HTTP_401_UNAUTHORIZED
              /\ (Decodes(t) /\ t.sub \in Ids /\ users[t.sub].is_active)
                    => resp'.status = HTTP_200_OK
      ]_vars

C11_Witness ==
    /\ resp.op = "guard" /\ resp.status = HTTP_401_UNAUTHORIZED
    /\ resp.token \in issued
    /\ resp.token.type = "access"
    /\ Decodes(resp.token)
    /\ resp.token.sub \in Ids
    /\ ~users[resp.token.sub].is_active
    /\ users[resp.token.sub].last_login # Never

\* ------------------------------------------ authorization (C12, C13)
MaxRequired == 2    \* length of a required-permissions list

HTTP_403_FORBIDDEN == 403

Permissions == {"read", "write", "delete", "admin"}
Roles == {"admin", "manager", "cashier", "user"}

\* the authenticated identities a checker can be handed
CurrentUsers == [permissions : SUBSET Permissions, role : Roles]

\* the lists a route can be declared with
RequiredLists == UNION {[1..n -> Permissions] : n \in 0..MaxRequired}

\* everything the authentication handlers own
auth == <<users, revoked_tokens, now, ticks, secret_key, tz_offset, issued,
          req, streak, refreshed, resp>>

RECURSIVE first_missing(_, _, _)
\* "for permission in required_permissions: if permission not in
\* user_permissions": index of the first one missing from position i on,
\* 0 when the loop runs to its end
first_missing(required_permissions, user_permissions, i) ==
    IF i > Len(required_permissions) THEN 0
    ELSE IF required_permissions[i] \notin user_permissions THEN i
    ELSE first_missing(required_permissions, user_permissions, i + 1)

permission_checker_any_one(current_user, required_permissions) ==
    IF "admin" \in current_user.permissions THEN HTTP_200_OK
    ELSE IF \A i \in 1..Len(required_permissions) :
               required_permissions[i] \notin current_user.permissions
    THEN HTTP_403_FORBIDDEN
    ELSE HTTP_200_OK

\* require_permissions(required_permissions) -> permission_checker
permission_checker(current_user, required_permissions) ==
    LET user_permissions == current_user.permissions
    IN  IF "admin" \in user_permissions THEN HTTP_200_OK
        ELSE IF first_missing(required_permissions, user_permissions, 1) # 0
        THEN HTTP_403_FORBIDDEN
        ELSE HTTP_200_OK

role_checker_exact(current_user, required_role) ==
    IF current_user.role # required_role THEN HTTP_403_FORBIDDEN
    ELSE HTTP_200_OK

\* require_role(required_role) -> role_checker
role_checker(current_user, required_role) ==
    LET user_role == current_user.role
    IN  IF user_role # required_role /\ user_role # "admin"
        THEN HTTP_403_FORBIDDEN
        ELSE HTTP_200_OK

require_permissions(current_user, required_permissions) ==
    /\ ret' = [op |-> "require_permissions", current_user |-> current_user,
               required |-> required_permissions,
               status |-> permission_checker(current_user, required_permissions)]
    /\ UNCHANGED <<auth, suppliers, customers, sales>>

require_role(current_user, required_role) ==
    /\ ret' = [op |-> "require_role", current_user |-> current_user,
               required |-> required_role,
               status |-> role_checker(current_user, required_role)]
    /\ UNCHANGED <<auth, suppliers, customers, sales>>

\* one request: one of the two checkers applied to an identity and a
\* requirement
NextAuthz ==
    \/ /\ ret = NoReturn
       /\ \E u \in CurrentUsers, l \in RequiredLists : require_permissions(u, l)
    \/ /\ ret = NoReturn
       /\ \E u \in CurrentUsers, r \in Roles : require_role(u, r)

AuthzSpec == InitDefault /\ [][NextAuthz]_vars

\* C12: the permission check passes exactly when the identity's permissions
\* contain admin or every required permission is among them (so an empty
\* requirement passes for everyone); otherwise it answers 403.
C12_RequirePermissions ==
    ret.op = "require_permissions" =>
        LET held == ret.current_user.permissions
            requiredSet == {ret.required[i] : i \in DOMAIN ret.required}
        IN  /\ ret.status \in {HTTP_200_OK, HTTP_403_FORBIDDEN}
            /\ ret.status = HTTP_200_OK
                  <=> ("admin" \in held \/ requiredSet \subseteq held)
            /\ requiredSet = {} => ret.status = HTTP_200_OK

C12_Witness ==
    /\ ret.op = "require_permissions"
    /\ ret.status = HTTP_403_FORBIDDEN
    /\ Len(ret.required) = 2
    /\ ret.required[1] \in ret.current_user.permissions
    /\ ret.required[2] \notin ret.current_user.permissions
    /\ ret.current_user.role = "admin"

\* C13: the role check passes exactly when the identity's role is the
\* required one or is admin; otherwise it answers 403, also for an identity
\* that holds the admin permission without the admin role.
C13_RequireRole ==
    ret.op = "require_role" =>
        LET role == ret.current_user.role
        IN  /\ ret.status \in {HTTP_200_OK, HTTP_403_FORBIDDEN}
            /\ ret.status = HTTP_200_OK
                  <=> (role = ret.required \/ role = "admin")
            /\ ("admin" \in ret.current_user.permissions
                  /\ role # "admin" /\ role # ret.required)
                  => ret.status = HTTP_403_FORBIDDEN

C13_Witness ==
    /\ ret.op = "require_role"
    /\ ret.status = HTTP_403_FORBIDDEN
    /\ "admin" \in ret.current_user.permissions
    /\ ret.current_user.role = "manager"
    /\ ret.required = "cashier"

\* ------------------------------------------------- user update (C14)
HTTP_404_NOT_FOUND == 404

\* a field the request body leaves out (model_dump(exclude_unset=True))
Unset == "unset"

\* email_exists(email, exclude_id): {"email", "is_active": True,
\* "_id": {"$ne": ObjectId(exclude_id)}}
email_exists_excluding(email, exclude_id) ==
    \E u \in Ids :
        u # exclude_id /\ users[u].email = email /\ users[u].is_active

\* the unique indexes on email and on username reject the update_one
DuplicateKeyOnUpdate(user_id, email, username) ==
    \E u \in Ids :
        /\ u # user_id
        /\ \/ email # Unset /\ users[u].email = email
           \/ username # Unset /\ users[u].username = username

\* UserService.update with the email and username fields of UserUpdate
update(user_id, email, username) ==
    /\ LET existing_user == get_by_id(user_id)
           base == [Response("update", 0) EXCEPT
                      !.user = user_id, !.email = email]
       IN  IF existing_user = NoUser
           THEN /\ resp' = [base EXCEPT !.status = HTTP_404_NOT_FOUND]
                /\ UNCHANGED users
           ELSE IF email # Unset /\ email_exists_excluding(email, user_id)
           THEN /\ resp' = [base EXCEPT !.status = HTTP_400_BAD_REQUEST]
                /\ UNCHANGED users
           ELSE IF DuplicateKeyOnUpdate(user_id, email, username)
           THEN /\ resp' = [base EXCEPT
                              !.status = HTTP_500_INTERNAL_SERVER_ERROR]
                /\ UNCHANGED users
           ELSE /\ users' = [users EXCEPT
                    ![user_id].email = IF email = Unset THEN @ ELSE email,
                    ![user_id].username =
                        IF username = Unset THEN @ ELSE username]
                /\ resp' = [base EXCEPT !.status = HTTP_200_OK]
    /\ UNCHANGED <<store, revoked_tokens, now, ticks, secret_key, tz_offset,
                   issued, req, streak, refreshed>>

\* the user-service operations, one after another
NextUser ==
    \/ \E e \in Emails, n \in Usernames, p \in RegisterPasswords :
          register(e, n, p)
    \/ \E u \in 1..MaxUsers : deactivate(u)
    \/ \E u \in 1..MaxUsers : activate(u)
    \/ \E u \in 1..(MaxUsers + 1), e \in Emails \cup {Unset},
          n \in Usernames \cup {Unset} : update(u, e, n)

UserSpec == InitDefault /\ [][NextUser]_vars

\* C14: in every state reached by register, update of email or username,
\* deactivate and activate, no two active identities share an email and no
\* two share a username.
C14_ActiveIdentitiesUnique ==
    \A u, v \in Ids :
        (u # v /\ users[u].is_active /\ users[v].is_active)
            => /\ users[u].email # users[v].email
               /\ users[u].username # users[v].username

C14_Witness ==
    /\ Len(users) = 2
    /\ resp.op = "update"
    /\ resp.status = HTTP_500_INTERNAL_SERVER_ERROR
    /\ resp.user \in Ids
    /\ resp.email = Unset
    /\ \A v \in Ids : users[v].is_active

\* --------------------------------------- document ids and BaseRepository
MaxCustomers == 2   \* documents the customers collection may hold

NoDocument == 0

\* an id as a client writes it: which ObjectId its 24 hex digits denote
\* (hex = 0: the string is not 24 hex digits) and whether the digits a-f
\* are written in upper case
InvalidId == [hex |-> 0, upper |-> FALSE]
IdStrings(n) == [hex : 0..n, upper : BOOLEAN]

\* ObjectId.is_valid(s)
ObjectId_is_valid(document_id) == document_id.hex # 0

\* ObjectId(s): bytes.fromhex reads either case
ObjectId(document_id) == document_id.hex

\* str(ObjectId): lower-case hex
str_id(oid) == [hex |-> oid, upper |-> FALSE]

\* BaseRepository.get_by_id: the _id of the document found, NoDocument for
\* None
repository_get_by_id(coll, document_id) ==
    IF ~ObjectId_is_valid(document_id) THEN NoDocument
    ELSE IF ObjectId(document_id) \in DOMAIN coll THEN ObjectId(document_id)
    ELSE NoDocument

\* {"$set": update_data} on one document
set_fields(doc, update_data) ==
    [f \in DOMAIN doc |->
        IF f \in DOMAIN update_data THEN update_data[f] ELSE doc[f]]

\* update_one({"_id": ObjectId(document_id)}, {"$set": update_data}):
\* the collection afterwards, and modified_count
update_one(coll, oid, update_data) ==
    IF oid \in DOMAIN coll
    THEN [coll |-> [coll EXCEPT ![oid] = set_fields(@, update_data)],
          modified_count |->
              IF set_fields(coll[oid], update_data) # coll[oid] THEN 1 ELSE 0]
    ELSE [coll |-> coll, modified_count |-> 0]

stamped_matched(coll, document_id, update_data) ==
    IF ~ObjectId_is_valid(document_id)
    THEN [coll |-> coll, value |-> FALSE]
    ELSE LET result == update_one(coll, ObjectId(document_id),
                          update_data @@ [updated_at |-> now])
         IN  [coll |-> result.coll,
              value |-> ObjectId(document_id) \in DOMAIN coll]

\* the body shared by BaseRepository.update, deactivate and activate:
\* validity check, $set with updated_at = utcnow(), modified_count > 0
stamped(coll, document_id, update_data) ==
    IF ~ObjectId_is_valid(document_id)
    THEN [coll |-> coll, value |-> FALSE]
    ELSE LET result == update_one(coll, ObjectId(document_id),
                          update_data @@ [updated_at |-> now])
         IN  [coll |-> result.coll, value |-> result.modified_count > 0]

\* the $set without the updated_at stamp
repository_update_unstamped(coll, document_id, update_data) ==
    IF ~ObjectId_is_valid(document_id)
    THEN [coll |-> coll, value |-> FALSE]
    ELSE LET result == update_one(coll, ObjectId(document_id), update_data)
         IN  [coll |-> result.coll, value |-> result.modified_count > 0]

\* BaseRepository.update
repository_update(coll, document_id, update_data) ==
    stamped(coll, document_id, update_data)

\* delete_one({"_id": ObjectId(document_id)}) in place of the $set
repository_deactivate_hard_delete(coll, document_id) ==
    IF repository_get_by_id(coll, document_id) = NoDocument
    THEN [coll |-> coll, value |-> FALSE]
    ELSE [coll |-> SubSeq(coll, 1, ObjectId(document_id) - 1)
                   \o SubSeq(coll, ObjectId(document_id) + 1, Len(coll)),
          value |-> TRUE]

\* BaseRepository.deactivate
repository_deactivate(coll, document_id) ==
    stamped(coll, document_id, [is_active |-> FALSE])

\* BaseRepository.activate
repository_activate(coll, document_id) ==
    stamped(coll, document_id, [is_active |-> TRUE])

\* -------------------------------------------- customers (C15, C16, C17)
CustomerEmails == {"c@x", "d@x"}
TaxIds == {"T1", "T2"}

CustomerIds == 1..Len(customers)

\* CustomerRepository.get_by_email: find_one({"email": email,
\* "is_active": True})
customer_get_by_email_none(email) == NoDocument

customer_get_by_email(email) ==
    IF \E c \in CustomerIds :
           customers[c].email = email /\ customers[c].is_active
    THEN CHOOSE c \in CustomerIds :
           customers[c].email = email /\ customers[c].is_active
    ELSE NoDocument

\* CustomerRepository.get_by_tax_id
customer_get_by_tax_id(tax_id) ==
    IF \E c \in CustomerIds :
           customers[c].tax_id = tax_id /\ customers[c].is_active
    THEN CHOOSE c \in CustomerIds :
           customers[c].tax_id = tax_id /\ customers[c].is_active
    ELSE NoDocument

\* the unique indexes on customers.email and customers.tax_id: the
\* collection after a write is refused when two documents share a value
CustomerDuplicateKey(coll) ==
    \E c, d \in DOMAIN coll :
        /\ c # d
        /\ coll[c].email = coll[d].email \/ coll[c].tax_id = coll[d].tax_id

\* what a service call gave back: the exception's status (0: none raised)
\* and the returned value
Returned(op, customer_id, email, tax_id, raised, value) ==
    [op |-> op, id |-> customer_id, email |-> email, tax_id |-> tax_id,
     raised |-> raised, value |-> value]

\* CustomerService.create
customer_create(email, tax_id) ==
    /\ LET inserted == Append(customers,
                          [email |-> email, tax_id |-> tax_id,
                           is_active |-> TRUE, updated_at |-> now])
           failed(status) ==
               /\ ret' = Returned("customer_create", InvalidId, email,
                                  tax_id, status, FALSE)
               /\ UNCHANGED customers
       IN  IF customer_get_by_email(email) # NoDocument
           THEN failed(HTTP_400_BAD_REQUEST)
           ELSE IF customer_get_by_tax_id(tax_id) # NoDocument
           THEN failed(HTTP_400_BAD_REQUEST)
           ELSE IF CustomerDuplicateKey(inserted)
           THEN failed(HTTP_500_INTERNAL_SERVER_ERROR)
           ELSE /\ Len(customers) < MaxCustomers
                /\ customers' = inserted
                /\ ret' = Returned("customer_create", str_id(Len(inserted)),
                                   email, tax_id, 0, TRUE)
    /\ UNCHANGED <<auth, suppliers, sales>>

\* CustomerService.update with the fields of CustomerUpdate that are set
customer_update(customer_id, email, tax_id) ==
    /\ LET existing_customer == repository_get_by_id(customers, customer_id)
           existing_email == customer_get_by_email(email)
           existing_tax == customer_get_by_tax_id(tax_id)
           update_dict ==
               (IF email = Unset THEN << >> ELSE [email |-> email])
               @@ (IF tax_id = Unset THEN << >> ELSE [tax_id |-> tax_id])
           result == repository_update(customers, customer_id, update_dict)
           failed(status) ==
               /\ ret' = Returned("customer_update", customer_id, email,
                                  tax_id, status, FALSE)
               /\ UNCHANGED customers
       IN  IF existing_customer = NoDocument
           THEN failed(HTTP_404_NOT_FOUND)
           ELSE IF /\ email # Unset
                   /\ existing_email # NoDocument
                   /\ str_id(existing_email) # customer_id
           THEN failed(HTTP_400_BAD_REQUEST)
           ELSE IF /\ tax_id # Unset
                   /\ existing_tax # NoDocument
                   /\ str_id(existing_tax) # customer_id
           THEN failed(HTTP_400_BAD_REQUEST)
           ELSE IF CustomerDuplicateKey(result.coll)
           THEN failed(HTTP_500_INTERNAL_SERVER_ERROR)
           ELSE /\ customers' = result.coll
                /\ ret' = Returned("customer_update", customer_id, email,
                                   tax_id, 0, result.value)
    /\ UNCHANGED <<auth, suppliers, sales>>

\* CustomerService.deactivate
customer_deactivate(customer_id) ==
    /\ LET result == repository_deactivate(customers, customer_id)
       IN  /\ customers' = result.coll
           /\ ret' = Returned("customer_deactivate", customer_id, Unset,
                              Unset, 0, result.value)
    /\ UNCHANGED <<auth, suppliers, sales>>

\* CustomerService.activate
customer_activate(customer_id) ==
    /\ LET result == repository_activate(customers, customer_id)
       IN  /\ customers' = result.coll
           /\ ret' = Returned("customer_activate", customer_id, Unset,
                              Unset, 0, result.value)
    /\ UNCHANGED <<auth, suppliers, sales>>

StampSteps == {1}

CustomerIdStrings == IdStrings(MaxCustomers + 1)

NextCustomer ==
    \/ \E d \in StampSteps : Tick(d)
    \/ \E e \in CustomerEmails, t \in TaxIds : customer_create(e, t)
    \/ \E i \in CustomerIdStrings, e \in CustomerEmails \cup {Unset},
          t \in TaxIds \cup {Unset} : customer_update(i, e, t)
    \/ \E i \in CustomerIdStrings : customer_deactivate(i)
    \/ \E i \in CustomerIdStrings : customer_activate(i)

CustomerSpec == InitDefault /\ [][NextCustomer]_vars

\* a service call has returned or raised during this step
Called(op) == ret'.op = op /\ store' # store

\* C15: when an active customer with email e exists, CustomerService.create
\* with email e raises 400 (Email already registered) and the customers
\* collection is left as it was.
C15_CreateDuplicateEmailRejected ==
    [][ (/\ Called("customer_create")
         /\ \E c \in CustomerIds :
                customers[c].is_active /\ customers[c].email = ret'.email)
        => (ret'.raised = HTTP_400_BAD_REQUEST /\ customers' = customers)
      ]_vars

\* a create was refused with 400 for the email of an active customer whose
\* tax id differs from the one submitted
C15_Witness ==
    /\ ret.op = "customer_create"
    /\ ret.raised = HTTP_400_BAD_REQUEST
    /\ \E c \in CustomerIds :
           /\ customers[c].is_active
           /\ customers[c].email = ret.email
           /\ customers[c].tax_id # ret.tax_id
    /\ \A c \in CustomerIds : customers[c].tax_id # ret.tax_id

\* C16: CustomerService.update(id, {email: e}) on an existing customer
\* raises 400 and changes nothing when e is the email of a different active
\* customer, and raises nothing when e is the current email of customer id
\* itself.
C16_UpdateEmailExcludesOwnId ==
    [][ (/\ Called("customer_update")
         /\ ret'.email # Unset
         /\ ret'.tax_id = Unset
         /\ repository_get_by_id(customers, ret'.id) # NoDocument)
        => LET self == ObjectId(ret'.id)
           IN  /\ (\E c \in CustomerIds \ {self} :
                       customers[c].is_active
                       /\ customers[c].email = ret'.email)
                   => (ret'.raised = HTTP_400_BAD_REQUEST
                       /\ customers' = customers)
               /\ customers[self].email = ret'.email => ret'.raised = 0
      ]_vars

\* the document a deactivate or activate call addresses, before the call
Addressed == repository_get_by_id(customers, ret'.id)

Toggled ==
    Called("customer_deactivate") \/ Called("customer_activate")

\* C17: deactivate and activate never raise; on an existing document they
\* leave is_active = false (deactivate) or true (activate) and return true
\* exactly when the write changed the document, that is when is_active
\* flipped or the updated_at stamp differs from the stored one; on an
\* absent or invalid id they return false and change nothing.
C17_ToggleReturnsModified ==
    [][ Toggled =>
        /\ ret'.raised = 0
        /\ Addressed = NoDocument
             => (ret'.value = FALSE /\ customers' = customers)
        /\ Addressed # NoDocument =>
             LET flag == ret'.op = "customer_activate"
                 before == customers[Addressed]
             IN  /\ customers'[Addressed].is_active = flag
                 /\ ret'.value = (before.is_active # flag
                                  \/ before.updated_at # now)
      ]_vars

\* C17 as stated: on an existing document every deactivate, the first and
\* a repeated one, returns true and leaves is_active = false, and an
\* activate of a deactivated document returns true and leaves is_active =
\* true; on an absent or invalid id both return false and change nothing.
C17_ToggleAlwaysSucceeds ==
    [][ Toggled =>
        /\ ret'.raised = 0
        /\ Addressed = NoDocument
             => (ret'.value = FALSE /\ customers' = customers)
        /\ Addressed # NoDocument =>
             /\ customers'[Addressed].is_active
                    = (ret'.op = "customer_activate")
             /\ (\/ ret'.op = "customer_deactivate"
                 \/ ~customers[Addressed].is_active) => ret'.value = TRUE
      ]_vars

\* a deactivate of a document that is already inactive and carries the
\* stamp of the current instant has returned false
C17_Witness ==
    /\ ret.op = "customer_deactivate"
    /\ ret.value = FALSE
    /\ repository_get_by_id(customers, ret.id) # NoDocument
    /\ ~customers[ObjectId(ret.id)].is_active
    /\ customers[ObjectId(ret.id)].updated_at = now

\* ------------------------------------------------- sales (C19, C20)
MaxSales == 3   \* sales created in one behaviour of the numbering model
MaxPriced == 1  \* sales created in one behaviour of the totals model
MaxItems == 2   \* items of one sale

SaleIds == 1..Len(sales)

\* datetime.now().strftime('%Y%m%d'): the server-local calendar day
today == (now + tz_offset) \div MinutesPerDay

\* the decimal digits of n, most significant first
RECURSIVE digits(_)
digits(n) == IF n < 10 THEN <<n>> ELSE Append(digits(n \div 10), n % 10)

RECURSIVE zero_fill(_, _)
zero_fill(s, width) ==
    IF Len(s) >= width THEN s ELSE zero_fill(<<0>> \o s, width)

\* f"{new_number:04d}"
format_04d(n) == zero_fill(digits(n), 4)

\* int(...) of a digit string
RECURSIVE int(_)
int(s) ==
    IF s = << >> THEN 0 ELSE 10 * int(SubSeq(s, 1, Len(s) - 1)) + s[Len(s)]

\* string order of two digit strings, as the sort on sale_number applies it
RECURSIVE str_less(_, _)
str_less(a, b) ==
    IF a = << >> THEN b # << >>
    ELSE IF b = << >> THEN FALSE
    ELSE IF Head(a) # Head(b) THEN Head(a) < Head(b)
    ELSE str_less(Tail(a), Tail(b))

\* a sale number SALE-<day>-<sequence>: the prefix by its day, the part
\* after the last "-" as a digit string
SaleNumber(day, n) == [day |-> day, seq |-> format_04d(n)]

\* find_one({"sale_number": {"$regex": "^" + prefix}},
\*          sort=[("sale_number", -1)])
last_sale(prefix_day) ==
    LET matching == {k \in SaleIds : sales[k].sale_number.day = prefix_day}
    IN  IF matching = {} THEN NoDocument
        ELSE CHOOSE k \in matching :
                 \A j \in matching :
                     ~str_less(sales[k].sale_number.seq,
                               sales[j].sale_number.seq)

generate_sale_number_first ==
    SaleNumber(today, 1)

\* SaleRepository.generate_sale_number
generate_sale_number ==
    IF last_sale(today) # NoDocument
    THEN SaleNumber(today, int(sales[last_sale(today)].sale_number.seq) + 1)
    ELSE SaleNumber(today, 1)

\* the unique index on sales.sale_number
SaleDuplicateKey(sale_number) ==
    \E k \in SaleIds : sales[k].sale_number = sale_number

\* sum(f(item) for item in items), accumulated from the first item on
RECURSIVE sum_from(_, _, _)
sum_from(acc, items, field) ==
    IF items = << >> THEN acc
    ELSE sum_from(acc + Head(items)[field], Tail(items), field)

total_amount_plus_discount(subtotal, tax_amount, discount_amount) ==
    subtotal + tax_amount + discount_amount

\* total_amount = subtotal + tax_amount - sale_data.discount_amount
total_amount_of(subtotal, tax_amount, discount_amount) ==
    subtotal + tax_amount - discount_amount

\* what a sale-service call gave back
SaleReturned(op, sale_id, raised, value) ==
    [op |-> op, id |-> sale_id, raised |-> raised, value |-> value]

\* SaleService.create
sale_create(items, discount_amount) ==
    /\ LET sale_number == generate_sale_number
           subtotal == sum_from(0, items, "total")
           tax_amount == sum_from(0, items, "tax_amount")
           total_amount ==
               total_amount_of(subtotal, tax_amount, discount_amount)
           sale_dict ==
               [sale_number |-> sale_number, items |-> items,
                subtotal |-> subtotal, discount_amount |-> discount_amount,
                tax_amount |-> tax_amount, total_amount |-> total_amount,
                status |-> "completed", sale_date |-> now,
                updated_at |-> now, is_active |-> TRUE]
       IN  IF SaleDuplicateKey(sale_number)
           THEN /\ ret' = SaleReturned("sale_create", InvalidId,
                                       HTTP_500_INTERNAL_SERVER_ERROR, FALSE)
                /\ UNCHANGED sales
           ELSE /\ sales' = Append(sales, sale_dict)
                /\ ret' = SaleReturned("sale_create",
                                       str_id(Len(sales) + 1), 0, TRUE)
    /\ UNCHANGED <<auth, suppliers, customers>>

\* SaleStatus
SaleStatuses == {"pending", "completed", "cancelled", "refunded"}

\* SaleService.update with the status of SaleUpdate set
sale_update(sale_id, status) ==
    /\ LET result == repository_update(sales, sale_id, [status |-> status])
       IN  IF repository_get_by_id(sales, sale_id) = NoDocument
           THEN /\ ret' = SaleReturned("sale_update", sale_id,
                                       HTTP_404_NOT_FOUND, FALSE)
                /\ UNCHANGED sales
           ELSE /\ sales' = result.coll
                /\ ret' = SaleReturned("sale_update", sale_id, 0,
                                       result.value)
    /\ UNCHANGED <<auth, suppliers, customers>>

\* SaleService.cancel_sale
cancel_sale(sale_id) ==
    /\ LET existing_sale == repository_get_by_id(sales, sale_id)
           result == repository_update(sales, sale_id,
                                       [status |-> "cancelled"])
           failed(status) ==
               /\ ret' = SaleReturned("cancel_sale", sale_id, status, FALSE)
               /\ UNCHANGED sales
       IN  IF existing_sale = NoDocument
           THEN failed(HTTP_404_NOT_FOUND)
           ELSE IF sales[existing_sale].status # "pending"
           THEN failed(HTTP_400_BAD_REQUEST)
           ELSE /\ sales' = result.coll
                /\ ret' = SaleReturned("cancel_sale", sale_id, 0,
                                       result.value)
    /\ UNCHANGED <<auth, suppliers, customers>>

\* SaleService.deactivate
sale_deactivate(sale_id) ==
    /\ LET result == repository_deactivate(sales, sale_id)
       IN  /\ sales' = result.coll
           /\ ret' = SaleReturned("sale_deactivate", sale_id, 0,
                                  result.value)
    /\ UNCHANGED <<auth, suppliers, customers>>

\* SaleService.activate
sale_activate(sale_id) ==
    /\ LET result == repository_activate(sales, sale_id)
       IN  /\ sales' = result.coll
           /\ ret' = SaleReturned("sale_activate", sale_id, 0, result.value)
    /\ UNCHANGED <<auth, suppliers, customers>>

\* the amounts of a SaleItem used by create (total > 0, tax_amount >= 0),
\* in cents
SaleItems == [total : {1, 3}, tax_amount : {0, 2}]
ItemLists == UNION {[1..n -> SaleItems] : n \in 0..MaxItems}
Discounts == {0, 9}

OneItem == <<[total |-> 1, tax_amount |-> 0]>>
DaySteps == {1, MinutesPerDay}

\* sales created one after another while the clock moves within a day and
\* across days
NextNumbering ==
    \/ \E d \in DaySteps : Tick(d)
    \/ Len(sales) < MaxSales /\ sale_create(OneItem, 0)
    \/ \E k \in SaleIds : sale_deactivate(str_id(k))

NumberingSpec == InitDefault /\ [][NextNumbering]_vars

\* one sale of every item list and discount
NextTotals ==
    \/ \E d \in DaySteps : Tick(d)
    \/ /\ Len(sales) < MaxPriced
       /\ \E items \in ItemLists, discount \in Discounts :
              sale_create(items, discount)

TotalsSpec == InitDefault /\ [][NextTotals]_vars

\* the four-digit decimal spelling of k, for k below 10000
FourDigits(k) ==
    <<k \div 1000, (k \div 100) % 10, (k \div 10) % 10, k % 10>>

\* the sales stored so far whose number carries the prefix of the current
\* local day
CreatedToday == {k \in SaleIds : sales[k].sale_number.day = today}

\* C19: sale creations that run one after another all succeed; the sale
\* stored by each carries the prefix of the current local day and, being
\* the k-th sale of that day, the sequence k written with four digits, so
\* the first sale of a day has 0001 whatever earlier days hold.
C19_SequentialPerDay ==
    [][ Called("sale_create") =>
        /\ ret'.raised = 0
        /\ Len(sales') = Len(sales) + 1
        /\ sales'[Len(sales')].sale_number =
               [day |-> today,
                seq |-> FourDigits(Cardinality(CreatedToday) + 1)]
      ]_vars

\* two sales of one day numbered 0001 and 0002, the first of them
\* deactivated, and a third sale created on a later day numbered 0001
C19_Witness ==
    /\ Len(sales) = 3
    /\ sales[1].sale_number = [day |-> 0, seq |-> <<0, 0, 0, 1>>]
    /\ ~sales[1].is_active
    /\ sales[2].sale_number = [day |-> 0, seq |-> <<0, 0, 0, 2>>]
    /\ sales[3].sale_number = [day |-> 1, seq |-> <<0, 0, 0, 1>>]

\* the sum of a field over the first n items
RECURSIVE Sigma(_, _, _)
Sigma(items, field, n) ==
    IF n = 0 THEN 0 ELSE Sigma(items, field, n - 1) + items[n][field]

\* C20: every stored sale has subtotal = sum of item.total, tax_amount =
\* sum of item.tax_amount and total_amount = subtotal + tax_amount -
\* discount_amount, also when the discount exceeds subtotal + tax_amount.
C20_DerivedTotals ==
    \A k \in SaleIds :
        LET sale == sales[k]
        IN  /\ sale.subtotal = Sigma(sale.items, "total", Len(sale.items))
            /\ sale.tax_amount =
                   Sigma(sale.items, "tax_amount", Len(sale.items))
            /\ sale.total_amount =
                   sale.subtotal + sale.tax_amount - sale.discount_amount

\* a stored sale of two different items whose discount exceeds subtotal
\* plus tax
C20_Witness ==
    \E k \in SaleIds :
        /\ Len(sales[k].items) = 2
        /\ sales[k].items[1] # sales[k].items[2]
        /\ sales[k].tax_amount > 0
        /\ sales[k].discount_amount > sales[k].subtotal + sales[k].tax_amount
        /\ sales[k].total_amount < 0

\* ------------------------------------------------ soft removal (C18)
SaleIdStrings == IdStrings(MaxPriced + 1)

\* the operations of SaleService on a few sales
SaleOperations ==
    \/ Len(sales) < MaxPriced /\ sale_create(OneItem, 0)
    \/ \E i \in SaleIdStrings, s \in SaleStatuses : sale_update(i, s)
    \/ \E i \in SaleIdStrings : cancel_sale(i)
    \/ \E i \in SaleIdStrings : sale_deactivate(i)
    \/ \E i \in SaleIdStrings : sale_activate(i)

\* the operations of CustomerService
CustomerOperations ==
    \/ \E e \in CustomerEmails, t \in TaxIds : customer_create(e, t)
    \/ \E i \in CustomerIdStrings, e \in CustomerEmails \cup {Unset},
          t \in TaxIds \cup {Unset} : customer_update(i, e, t)
    \/ \E i \in CustomerIdStrings : customer_deactivate(i)
    \/ \E i \in CustomerIdStrings : customer_activate(i)

CustomerOperationNames ==
    {"customer_create", "customer_update", "customer_deactivate",
     "customer_activate"}

SaleOperationNames ==
    {"sale_create", "sale_update", "cancel_sale", "sale_deactivate",
     "sale_activate"}

\* the services of the three entities; they share no collection, and a
\* behaviour calls one of them
NextDocuments ==
    \/ \E d \in StampSteps : Tick(d)
    \/ ret = NoReturn /\ NextUser
    \/ /\ resp.op = "none"
       /\ ret.op \in {"none"} \cup CustomerOperationNames
       /\ CustomerOperations
    \/ /\ resp.op = "none"
       /\ ret.op \in {"none"} \cup SaleOperationNames
       /\ SaleOperations

DocumentSpec == InitDefault /\ [][NextDocuments]_vars

\* C18: no operation of the user, customer or sale service removes a
\* document: no collection ever gets smaller, and every deactivated
\* document is still returned by get_by_id.
C18_NeverPhysicallyRemoved ==
    /\ [][ /\ Len(users') >= Len(users)
           /\ Len(customers') >= Len(customers)
           /\ Len(sales') >= Len(sales) ]_vars
    /\ [](/\ \A u \in Ids : ~users[u].is_active => get_by_id(u) = u
          /\ \A c \in CustomerIds :
                 ~customers[c].is_active
                 => repository_get_by_id(customers, str_id(c)) = c
          /\ \A k \in SaleIds :
                 ~sales[k].is_active
                 => repository_get_by_id(sales, str_id(k)) = k)

\* a sale that was set pending, cancelled and then deactivated is still
\* stored
C18_Witness ==
    /\ ret.op = "sale_deactivate"
    /\ ret.value = TRUE
    /\ Len(sales) = MaxPriced
    /\ sales[ObjectId(ret.id)].status = "cancelled"
    /\ ~sales[ObjectId(ret.id)].is_active

\* ------------------------------------------------ daily summary (C21)
SummaryDates == {90, MinutesPerDay}
SummarySteps == {MinutesPerDay}

matched_any_status(sale, start_date, end_date) ==
    sale.sale_date >= start_date /\ sale.sale_date < end_date

\* {"$match": {"sale_date": {"$gte": start_date, "$lt": end_date},
\*             "status": "completed"}}
matched(sale, start_date, end_date) ==
    /\ sale.sale_date >= start_date
    /\ sale.sale_date < end_date
    /\ sale.status = "completed"

\* SaleRepository.get_daily_sales_summary behind SaleService
get_daily_sales_summary(date) ==
    /\ LET start_date == date - (date % MinutesPerDay)
           end_date == start_date + MinutesPerDay
           group == SelectSeq(sales,
                        LAMBDA sale : matched(sale, start_date, end_date))
       IN  ret' = IF group # << >>
                  THEN [op |-> "get_daily_sales_summary", date |-> date,
                        total_sales |-> Len(group),
                        total_amount |-> sum_from(0, group, "total_amount"),
                        total_tax |-> sum_from(0, group, "tax_amount"),
                        total_discount |->
                            sum_from(0, group, "discount_amount")]
                  ELSE [op |-> "get_daily_sales_summary", date |-> date,
                        total_sales |-> 0, total_amount |-> 0,
                        total_tax |-> 0, total_discount |-> 0]
    /\ UNCHANGED <<auth, suppliers, customers, sales>>

\* sales of two amounts, status changes, days passing, and summaries
NextSummary ==
    \/ \E d \in SummarySteps : Tick(d)
    \/ /\ Len(sales) < MaxPriced + 1
       /\ \E discount \in Discounts : sale_create(OneItem, discount)
    \/ \E k \in SaleIds, s \in SaleStatuses \ {"completed"} :
          sale_update(str_id(k), s)
    \/ \E date \in SummaryDates : get_daily_sales_summary(date)

SummarySpec == InitDefault /\ [][NextSummary]_vars

\* the sum of total_amount over a set of stored sales
RECURSIVE AmountOver(_)
AmountOver(S) ==
    IF S = {} THEN 0
    ELSE LET k == CHOOSE k \in S : TRUE
         IN  sales[k].total_amount + AmountOver(S \ {k})

\* the completed sales whose sale_date lies on the day of the given date
CompletedOn(date) ==
    {k \in SaleIds :
        /\ sales[k].status = "completed"
        /\ sales[k].sale_date \div MinutesPerDay = date \div MinutesPerDay}

\* C21: the daily summary for a date reports as total_sales the number of
\* completed sales whose sale_date lies on that day and as total_amount
\* the sum of their total_amount; other sales contribute nothing, and a
\* day without completed sales gives 0 and 0.
C21_DailySummary ==
    [][ Called("get_daily_sales_summary") =>
        /\ ret'.total_sales = Cardinality(CompletedOn(ret'.date))
        /\ ret'.total_amount = AmountOver(CompletedOn(ret'.date))
      ]_vars

\* a summary that counted one completed sale of its day while a sale of
\* that day with another status and a different amount is stored
C21_Witness ==
    /\ ret.op = "get_daily_sales_summary"
    /\ ret.total_sales = 1
    /\ \E k, j \in SaleIds :
           /\ sales[k].status = "completed"
           /\ sales[j].status # "completed"
           /\ sales[k].sale_date \div MinutesPerDay
                  = ret.date \div MinutesPerDay
           /\ sales[j].sale_date \div MinutesPerDay
                  = ret.date \div MinutesPerDay
           /\ sales[j].total_amount # sales[k].total_amount
           /\ ret.total_amount = sales[k].total_amount

\* ------------------------------------- create as two steps (C22)
\* UserService.create up to its second await: both lookups found nothing
\* and the request goes on to the insert, or one of them raised 400
create_check(r, email, username, password) ==
    /\ req[r].pc = "idle"
    /\ IF email_exists(email) \/ username_exists(username)
       THEN /\ resp' = [Response("register", HTTP_400_BAD_REQUEST)
                          EXCEPT !.email = email]
            /\ UNCHANGED req
       ELSE /\ req' = [req EXCEPT ![r] =
                          [Idle EXCEPT !.pc = "create_insert",
                                       !.email = email,
                                       !.password = password]
                          @@ [username |-> username]]
            /\ UNCHANGED resp
    /\ UNCHANGED <<store, users, revoked_tokens, now, ticks, secret_key,
                   tz_offset, issued, streak, refreshed>>

create_insert_rechecked(r) ==
    /\ req[r].pc = "create_insert"
    /\ IF DuplicateKey(req[r].email, req[r].username)
       THEN /\ resp' = [Response("register", HTTP_400_BAD_REQUEST)
                          EXCEPT !.email = req[r].email]
            /\ UNCHANGED users
       ELSE /\ Len(users) < MaxUsers
            /\ users' = Append(users, NewUser(req[r].email, req[r].username,
                                              req[r].password))
            /\ resp' = [Response("register", HTTP_201_CREATED)
                          EXCEPT !.email = req[r].email,
                                 !.user = Len(users) + 1]
    /\ req' = [req EXCEPT ![r] = Idle]
    /\ UNCHANGED <<store, revoked_tokens, now, ticks, secret_key, tz_offset,
                   issued, streak, refreshed>>

\* repository.create of a request that passed the lookups: insert_one,
\* stopped only by the unique indexes (the DuplicateKeyError is not caught
\* and the request ends as 500)
create_insert(r) ==
    /\ req[r].pc = "create_insert"
    /\ IF DuplicateKey(req[r].email, req[r].username)
       THEN /\ resp' = [Response("register", HTTP_500_INTERNAL_SERVER_ERROR)
                          EXCEPT !.email = req[r].email]
            /\ UNCHANGED users
       ELSE /\ Len(users) < MaxUsers
            /\ users' = Append(users, NewUser(req[r].email, req[r].username,
                                              req[r].password))
            /\ resp' = [Response("register", HTTP_201_CREATED)
                          EXCEPT !.email = req[r].email,
                                 !.user = Len(users) + 1]
    /\ req' = [req EXCEPT ![r] = Idle]
    /\ UNCHANGED <<store, revoked_tokens, now, ticks, secret_key, tz_offset,
                   issued, streak, refreshed>>

\* concurrent register requests, interleaved at the await between lookup
\* and insert
NextCreateRace ==
    \/ \E r \in Reqs, e \in Emails, n \in Usernames,
          p \in RegisterPasswords : create_check(r, e, n, p)
    \/ \E r \in Reqs : create_insert(r)

CreateRaceSpec == InitDefault /\ [][NextCreateRace]_vars

\* C22: lookup and insert are separate steps: a request at the insert step
\* is not checked again by the service, so when the identity it carries
\* has been stored in the meantime the insert is stopped by the unique
\* index (500, nothing stored) and otherwise it is stored; two requests
\* with one email can both be at the insert step (C22_Witness).
C22_InsertIsNotRechecked ==
    [][ \A r \in Reqs :
          (req[r].pc = "create_insert" /\ req'[r].pc = "idle") =>
             IF \E u \in Ids : \/ users[u].email = req[r].email
                               \/ users[u].username = req[r].username
             THEN /\ resp'.status = HTTP_500_INTERNAL_SERVER_ERROR
                  /\ users' = users
             ELSE /\ resp'.status = HTTP_201_CREATED
                  /\ Len(users') = Len(users) + 1
                  /\ users'[Len(users')].email = req[r].email
      ]_vars

\* two requests with the same email have both passed the lookups and
\* neither has inserted
C22_Witness ==
    \E r1, r2 \in Reqs :
        /\ r1 # r2
        /\ req[r1].pc = "create_insert"
        /\ req[r2].pc = "create_insert"
        /\ req[r1].email = req[r2].email
        /\ req[r1].username # req[r2].username
        /\ \A u \in Ids : users[u].email # req[r1].email

\* C23: a token of type refresh presented to the access guard is answered
\* with 401.
C23_RefreshTokenRejectedByGuard ==
    [][ (Served("guard") /\ resp'.token.type = "refresh")
        => resp'.status = HTTP_401_UNAUTHORIZED ]_vars

\* ------------------------------------------------- suppliers (C24)
SupplierIds == 1..Len(suppliers)

\* the methods a SupplierRepository object has: those of BaseRepository
\* and its own
SupplierRepositoryMethods ==
    {"create", "get_by_id", "get_all", "update", "deactivate", "activate",
     "hard_delete", "count", "exists", "get_by_email", "get_by_tax_id",
     "search_suppliers", "update_balance"}

\* SupplierService.create
supplier_create(email, tax_id) ==
    /\ LET inserted == Append(suppliers,
                          [email |-> email, tax_id |-> tax_id,
                           is_active |-> TRUE, updated_at |-> now])
           failed(status) ==
               /\ ret' = Returned("supplier_create", InvalidId, email,
                                  tax_id, status, FALSE)
               /\ UNCHANGED suppliers
       IN  IF \E k \in SupplierIds :
                  suppliers[k].email = email /\ suppliers[k].is_active
           THEN failed(HTTP_400_BAD_REQUEST)
           ELSE IF \E k \in SupplierIds :
                       suppliers[k].tax_id = tax_id /\ suppliers[k].is_active
           THEN failed(HTTP_400_BAD_REQUEST)
           ELSE IF CustomerDuplicateKey(inserted)
           THEN failed(HTTP_500_INTERNAL_SERVER_ERROR)
           ELSE /\ Len(suppliers) < MaxCustomers
                /\ suppliers' = inserted
                /\ ret' = Returned("supplier_create", str_id(Len(inserted)),
                                   email, tax_id, 0, TRUE)
    /\ UNCHANGED <<auth, customers, sales>>

\* SupplierService.deactivate: the attribute it calls on the repository is
\* spelled "deactivte"; a missing attribute raises AttributeError inside
\* the try block, which the except clause turns into 500
supplier_deactivate(supplier_id) ==
    /\ IF "deactivte" \in SupplierRepositoryMethods
       THEN LET result == repository_deactivate(suppliers, supplier_id)
            IN  /\ suppliers' = result.coll
                /\ ret' = Returned("supplier_deactivate", supplier_id, Unset,
                                   Unset, 0, result.value)
       ELSE /\ ret' = Returned("supplier_deactivate", supplier_id, Unset,
                               Unset, HTTP_500_INTERNAL_SERVER_ERROR, FALSE)
            /\ UNCHANGED suppliers
    /\ UNCHANGED <<auth, customers, sales>>

\* SupplierService.activate
supplier_activate(supplier_id) ==
    /\ LET result == repository_activate(suppliers, supplier_id)
       IN  /\ suppliers' = result.coll
           /\ ret' = Returned("supplier_activate", supplier_id, Unset,
                              Unset, 0, result.value)
    /\ UNCHANGED <<auth, customers, sales>>

NextSupplier ==
    \/ \E d \in StampSteps : Tick(d)
    \/ \E e \in CustomerEmails, t \in TaxIds : supplier_create(e, t)
    \/ \E i \in CustomerIdStrings : supplier_deactivate(i)
    \/ \E i \in CustomerIdStrings : supplier_activate(i)

SupplierSpec == InitDefault /\ [][NextSupplier]_vars

\* C24: deactivate and activate of the supplier service on an existing
\* document raise nothing and leave is_active = false and true.
C24_SupplierTogglePassesThrough ==
    [][ \A flag \in BOOLEAN :
          (/\ Called(IF flag THEN "supplier_activate"
                     ELSE "supplier_deactivate")
           /\ repository_get_by_id(suppliers, ret'.id) # NoDocument)
          => /\ ret'.raised = 0
             /\ suppliers'[ObjectId(ret'.id)].is_active = flag
      ]_vars

\* C25: the access token of every login and refresh response expires
\* ACCESS_TOKEN_EXPIRE_MINUTES after it is issued, the refresh token
\* REFRESH_TOKEN_EXPIRE_DAYS after, and expires_in is the access token's
\* validity in seconds.
C25_TokenValidity ==
    [][ ((Served("login") \/ Served("refresh"))
         /\ resp'.status = HTTP_200_OK)
        => /\ resp'.access.exp - now = ACCESS_TOKEN_EXPIRE_MINUTES
           /\ resp'.refresh.exp - now
                  = REFRESH_TOKEN_EXPIRE_DAYS * MinutesPerDay
           /\ resp'.expires_in = (resp'.access.exp - now) * 60
      ]_vars

\* ------------------------------------------- BaseRepository.update (C26)
\* SaleRepository.update(sale_id, {"status": status}) called directly; the
\* outcome records the status stored before the call
sales_update(sale_id, status) ==
    /\ LET result == repository_update(sales, sale_id, [status |-> status])
           found == repository_get_by_id(sales, sale_id)
       IN  /\ sales' = result.coll
           /\ ret' = [op |-> "sales_update", id |-> sale_id,
                      status |-> status,
                      before |-> IF found = NoDocument THEN Unset
                                 ELSE sales[found].status,
                      raised |-> 0, value |-> result.value]
    /\ UNCHANGED <<auth, suppliers, customers>>

NextRepository ==
    \/ \E d \in StampSteps : Tick(d)
    \/ Len(sales) < MaxPriced /\ sale_create(OneItem, 0)
    \/ \E i \in SaleIdStrings, s \in SaleStatuses : sales_update(i, s)

RepositorySpec == InitDefault /\ [][NextRepository]_vars

\* C26: update returns false and changes nothing when the id is invalid or
\* matches no document; on a matching document it sets the supplied field
\* and stamps updated_at, and returns true exactly when that changed the
\* document: when the supplied value differs from the stored one or the
\* stamp differs from the stored updated_at. A false return leaves the
\* collection unchanged.
C26_UpdateReturnsModified ==
    [][ Called("sales_update") =>
        LET found == repository_get_by_id(sales, ret'.id)
        IN  /\ found = NoDocument
                 => (ret'.value = FALSE /\ sales' = sales)
            /\ found # NoDocument =>
                 /\ sales'[found].status = ret'.status
                 /\ sales'[found].updated_at = now
                 /\ ret'.value = (\/ sales[found].status # ret'.status
                                  \/ sales[found].updated_at # now)
            /\ ret'.value = FALSE => sales' = sales
      ]_vars

\* C26 as stated: update returns true exactly when a document matches and
\* a supplied field differs from the stored value, and a false return
\* leaves the collection unchanged.
C26_UpdateFalseWhenFieldsEqual ==
    [][ Called("sales_update") =>
        LET found == repository_get_by_id(sales, ret'.id)
        IN  /\ ret'.value = (/\ found # NoDocument
                             /\ sales[found].status # ret'.status)
            /\ ret'.value = FALSE => sales' = sales
      ]_vars

\* an update that supplied the status already stored has returned true
C26_Witness ==
    /\ ret.op = "sales_update"
    /\ ret.value = TRUE
    /\ ret.before = ret.status
    /\ sales[ObjectId(ret.id)].updated_at = now

\* ------------------------------------------------ locked for good (C27)
SomeoneLocked == \E u \in Ids : users[u].is_locked

\* the exposed operations on one registered account, served one after
\* another: logins until the account is locked, every operation from then
\* on, with one logout
NextLock ==
    \/ AllIdle /\ LoginStart(Passwords)
    \/ LoginFail
    \/ LoginSucceed
    \/ AllIdle /\ SomeoneLocked /\ Accounts
    \/ /\ AllIdle /\ SomeoneLocked
       /\ \E u \in 1..MaxUsers, e \in Emails \cup {Unset},
             n \in Usernames \cup {Unset} : update(u, e, n)
    \/ AllIdle /\ SomeoneLocked /\ \E t \in Presentable : refresh(t)
    \/ /\ AllIdle /\ SomeoneLocked /\ revoked_tokens = {}
       /\ \E t \in issued : logout(t)

LockSpec == InitOneRegistered /\ [][NextLock]_vars

current_active_user(token) ==
    LET payload == verify_token(token)
    IN  IF ~payload.ok \/ payload.sub = NoUser THEN NoUser
        ELSE IF get_by_id(payload.sub) = NoUser THEN NoUser
        ELSE IF ~users[payload.sub].is_active THEN NoUser
        ELSE payload.sub

\* UserService.update with role and permissions of UserUpdate set
update_role_permissions(user_id, role, permissions) ==
    [users EXCEPT ![user_id].role = role,
                  ![user_id].permissions = permissions]

profile_guard_admin(current_user) ==
    permission_checker(users[current_user], <<"admin">>)

\* the dependency of PUT /users/me/profile lets every active identity in
profile_guard(current_user) == HTTP_200_OK

\* PUT /users/me/profile
update_current_user_profile(token, role, permissions) ==
    /\ LET current_user == current_active_user(token)
           base == [Response("profile", 0) EXCEPT
                      !.token = token, !.user = current_user]
       IN  IF current_user = NoUser
           THEN /\ resp' = [base EXCEPT !.status = HTTP_401_UNAUTHORIZED]
                /\ UNCHANGED users
           ELSE IF profile_guard(current_user) # HTTP_200_OK
           THEN /\ resp' = [base EXCEPT !.status = HTTP_403_FORBIDDEN]
                /\ UNCHANGED users
           ELSE /\ users' = update_role_permissions(current_user, role,
                                                    permissions)
                /\ resp' = [base EXCEPT !.status = HTTP_200_OK]
    /\ UNCHANGED <<store, revoked_tokens, now, ticks, secret_key, tz_offset,
                   issued, req, streak, refreshed>>

\* PUT /users/{user_id} behind require_permissions(["admin"])
update_user(token, user_id, role, permissions) ==
    /\ LET current_user == current_active_user(token)
           base == [Response("update_user", 0) EXCEPT
                      !.token = token, !.user = current_user]
       IN  IF current_user = NoUser
           THEN /\ resp' = [base EXCEPT !.status = HTTP_401_UNAUTHORIZED]
                /\ UNCHANGED users
           ELSE IF permission_checker(users[current_user], <<"admin">>)
                       # HTTP_200_OK
           THEN /\ resp' = [base EXCEPT !.status = HTTP_403_FORBIDDEN]
                /\ UNCHANGED users
           ELSE IF get_by_id(user_id) = NoUser
           THEN /\ resp' = [base EXCEPT !.status = HTTP_404_NOT_FOUND]
                /\ UNCHANGED users
           ELSE /\ users' = update_role_permissions(user_id, role,
                                                    permissions)
                /\ resp' = [base EXCEPT !.status = HTTP_200_OK]
    /\ UNCHANGED <<store, revoked_tokens, now, ticks, secret_key, tz_offset,
                   issued, req, streak, refreshed>>

GrantedSets == {{"read"}, {"read", "admin"}}

\* two registered identities without admin log in and send user updates
NextPrivilege ==
    \/ AllIdle /\ LoginStart(RegisterPasswords)
    \/ LoginSucceed
    \/ AllIdle /\ \E t \in issued, r \in {"user", "admin"},
                     p \in GrantedSets :
                     update_current_user_profile(t, r, p)
    \/ AllIdle /\ \E t \in issued, u \in 1..MaxUsers,
                     r \in {"user", "admin"}, p \in GrantedSets :
                     update_user(t, u, r, p)

PrivilegeSpec == InitRegistered /\ [][NextPrivilege]_vars

\* C28: whenever a request changes the role or the permissions of an
\* identity, the identity that sent it holds the admin permission.
C28_OnlyAdminChangesRoles ==
    [][ \A u \in Ids :
          (\/ users'[u].role # users[u].role
           \/ users'[u].permissions # users[u].permissions)
          => (/\ resp'.user \in Ids
              /\ "admin" \in users[resp'.user].permissions)
      ]_vars

\* ------------------------------- interleaved failed logins (C29)
WrongPasswords == Passwords \ RegisterPasswords

\* every login carries a wrong password; the requests interleave at
\* every await of UserService.authenticate
NextFailedLogin ==
    \/ LoginStart(WrongPasswords)
    \/ LoginFail

FailedLoginSpec == InitOneRegistered /\ [][NextFailedLogin]_vars

\* C29: with no login in flight, an identity whose counter of failed
\* attempts is 5 or more is locked.
C29_QuiescentCounterImpliesLocked ==
    AllIdle =>
      \A u \in Ids :
        users[u].failed_login_attempts >= LockThreshold + 1
          => users[u].is_locked

\* ------------------------------- interleaved sale creates (C30)
LastFourDigit == 9999

\* the sale a request is about to insert under a number it generated
sale_document(sale_number) ==
    [sale_number |-> sale_number, items |-> OneItem,
     subtotal |-> 1, discount_amount |-> 0, tax_amount |-> 0,
     total_amount |-> 1, status |-> "completed", sale_date |-> now,
     updated_at |-> now, is_active |-> TRUE]

\* the sales collection at the start of a day, and late on a day whose
\* sequence has reached 9999: of that day's sales the last one is kept,
\* the numbers of the others are below every number generated after it
InitLateInDay ==
    /\ users = << >>
    /\ revoked_tokens = {}
    /\ now = 0
    /\ ticks = 0
    /\ DefaultConfig
    /\ issued = {}
    /\ req = [r \in Reqs |-> Idle]
    /\ streak = [u \in 1..MaxUsers |-> 0]
    /\ refreshed = [once |-> {}, more |-> {}]
    /\ resp = Response("none", 0)
    /\ customers = << >>
    /\ suppliers = << >>
    /\ ret = NoReturn
    /\ sales \in {<< >>, <<sale_document(SaleNumber(0, LastFourDigit))>>}

\* SaleService.create up to its first await:
\* "sale_number = await self.repository.generate_sale_number()"
sale_create_generate(r) ==
    /\ req[r].pc = "idle"
    /\ req' = [req EXCEPT ![r] =
                 [Idle EXCEPT !.pc = "sale_insert"]
                 @@ [sale_number |-> generate_sale_number]]
    /\ UNCHANGED <<store, users, revoked_tokens, now, ticks, secret_key,
                   tz_offset, issued, streak, refreshed, resp>>

sale_insert_unindexed(r) ==
    /\ req[r].pc = "sale_insert"
    /\ Len(sales) < MaxSales
    /\ sales' = Append(sales, sale_document(req[r].sale_number))
    /\ ret' = SaleReturned("sale_create", str_id(Len(sales) + 1), 0, TRUE)
              @@ [sale_number |-> req[r].sale_number]
    /\ req' = [req EXCEPT ![r] = Idle]
    /\ UNCHANGED <<customers, suppliers, users, revoked_tokens, now, ticks,
                   secret_key, tz_offset, issued, streak, refreshed, resp>>

\* the rest of SaleService.create: "await self.repository.create(sale_dict)"
\* under the unique index on sale_number; a DuplicateKeyError leaves the
\* handler as a 500
sale_insert(r) ==
    /\ req[r].pc = "sale_insert"
    /\ IF SaleDuplicateKey(req[r].sale_number)
       THEN /\ ret' = SaleReturned("sale_create", InvalidId,
                                   HTTP_500_INTERNAL_SERVER_ERROR, FALSE)
                      @@ [sale_number |-> req[r].sale_number]
            /\ UNCHANGED sales
       ELSE /\ Len(sales) < MaxSales
            /\ sales' = Append(sales, sale_document(req[r].sale_number))
            /\ ret' = SaleReturned("sale_create", str_id(Len(sales) + 1),
                                   0, TRUE)
                      @@ [sale_number |-> req[r].sale_number]
    /\ req' = [req EXCEPT ![r] = Idle]
    /\ UNCHANGED <<customers, suppliers, users, revoked_tokens, now, ticks,
                   secret_key, tz_offset, issued, streak, refreshed, resp>>

\* create requests interleave between the read of the day's highest
\* number and the insert, within a day and across days
NextSaleRace ==
    \/ \E d \in DaySteps : Tick(d)
    \/ \E r \in Reqs : sale_create_generate(r)
    \/ \E r \in Reqs : sale_insert(r)

SaleRaceSpec == InitLateInDay /\ [][NextSaleRace]_vars

\* C30: no two stored sales carry the same sale_number.
C30_SaleNumbersUnique ==
    \A j \in SaleIds : \A k \in SaleIds :
        j # k => sales[j].sale_number # sales[k].sale_number

\* a day that passed 9999 holds 9999 and 10000, and on the next day the
\* later of two creates that both read an empty day was refused 0001
C30_Witness ==
    /\ AllIdle
    /\ Len(sales) = 3
    /\ sales[1].sale_number = [day |-> 0, seq |-> <<9, 9, 9, 9>>]
    /\ sales[2].sale_number = [day |-> 0, seq |-> <<1, 0, 0, 0, 0>>]
    /\ sales[3].sale_number = [day |-> 1, seq |-> <<0, 0, 0, 1>>]
    /\ ret.op = "sale_create"
    /\ ret.raised = HTTP_500_INTERNAL_SERVER_ERROR
    /\ ret.sale_number = sales[3].sale_number

====
